---- MODULE Spec2Model ----
(***************************************************************************)
(* Model of gslib/commands/cp.py: CpCommand.RunCommand drives the items of *)
(* the name expansion iterator through CpCommand.CopyFunc, sequentially or *)
(* on concurrent workers (Command.Apply), and computes the exit status.    *)
(*                                                                         *)
(* A worker runs one call of CopyFunc at a time, so a call is identified   *)
(* by its item: pc[i] and loc[i] are the position and the locals of the    *)
(* call on item i, and NumWorkers bounds the calls in progress.            *)
(* Times are integers in units of 0.01 s (the floor of line 740 is 1).     *)
(***************************************************************************)
EXTENDS Integers, FiniteSets, Sequences, TLC

\* ---------------------------------------------------------------- bounds
NumItems == 2      \* items produced by the name expansion iterator
NumWorkers == 2    \* concurrent workers of Apply
MaxClock == 1      \* clock ticks per run
MaxDepth == 3      \* path segments of a source below its source token
MaxRows == 2       \* rows of one source in the manifest file; no further run once reached

\* ------------------------------------------------------ program constants
ElapsedFloor == 1  \* total_elapsed_time = 0.01

Items == 1..NumItems

VARIABLES
  opts,                    \* opts_tuple: perform_mv, use_manifest, print_ver, canned_acl, no_clobber
  continue_on_error,       \* self.continue_on_error (-c)
  have_multiple_srcs,      \* IsMultiSrcRequest(): the request names more than one source item
  dst_names_container,     \* the destination is an existing/valid container
  shape,                   \* per item: what the checks of CopyFunc find about it
  phase,                   \* "apply" while Apply runs, "done" once RunCommand has ended
  status,                  \* "running", "ok" (return 0), "CommandException", "exception"
  reported_count,          \* the count carried by the CommandException of line 758
  next_item,               \* position of the name expansion iterator
  aborted,                 \* an exception left CopyFunc and Apply stopped scheduling
  pc,                      \* per item: position of its CopyFunc call
  loc,                     \* per item: the locals of its CopyFunc call
  manifest,                \* per item: result recorded in the manifest file
  rows,                    \* per item: result rows the manifest file holds for it
  recorded_done,           \* per item: the run found it recorded as OK or skip
  copy_failure_count,      \* self.copy_failure_count
  total_bytes_transferred, \* self.total_bytes_transferred
  total_elapsed_time,      \* self.total_elapsed_time
  stats_lock,              \* TRUE iff self.stats_lock is held
  now,                     \* time.time() - start_time
  outcome,                 \* per item: "none", "Succeeded", "Skipped", "Failed"
  fin,                     \* per item: how its CopyFunc call ended
  transfers,               \* per item: calls of PerformCopy in this run
  xfer_elapsed,            \* per item: elapsed time returned by PerformCopy
  added,                   \* per item: TRUE once lines 648-649 stored its values
  deletes,                 \* per item: deletes of its source issued in this run
  resolved,                \* per item: TRUE once lines 560-568 resolved its destination
  setup,                   \* RunCommand before Apply: "expand", "probe", "iterate", "failed"
  exp_dst_url,             \* the expanded destination, a path
  dst_cloud,               \* exp_dst_url.IsCloudUrl()
  dst_exists,              \* the destination exists as a container now
  dst_versioning,          \* the bucket of the destination has versioning enabled
  have_existing_dst_container, \* the flag ExpandDstUrl returned (line 675)
  probe,                   \* what GetBucket did in _GetBucketWithVersioningConfig
  all_versions,            \* all_versions (lines 683-698)
  src_url,                 \* the source token, a path
  names_container,         \* NamesContainer() of the results of the token
  exp_src_url,             \* the expanded source resolved last, <<>> before
  dst_url                  \* the destination ConstructDstUrl returned for it

vars == <<opts, continue_on_error, phase, status, reported_count, next_item,
          aborted, pc, loc, manifest, rows, recorded_done, copy_failure_count,
          total_bytes_transferred, total_elapsed_time, stats_lock, now, outcome,
          fin, transfers, xfer_elapsed, added, deletes, resolved,
          have_multiple_srcs, dst_names_container, shape,
          setup, exp_dst_url, dst_cloud, dst_exists, dst_versioning,
          have_existing_dst_container, probe, all_versions, src_url, names_container, exp_src_url, dst_url>>

setupVars == <<setup, exp_dst_url, dst_cloud, dst_exists, dst_versioning,
               have_existing_dst_container,
               probe, all_versions, src_url, names_container, exp_src_url, dst_url>>
cfgVars == <<opts, continue_on_error, have_multiple_srcs, dst_names_container, shape,
             setupVars>>
runVars == <<phase, status, reported_count>>
applyVars == <<next_item, aborted>>
statVars == <<copy_failure_count, total_bytes_transferred, total_elapsed_time, stats_lock>>
histVars == <<outcome, fin, transfers, xfer_elapsed, added, deletes, resolved>>

RECURSIVE Sum(_, _)
Sum(f, S) == IF S = {} THEN 0
             ELSE LET x == CHOOSE y \in S : TRUE IN f[x] + Sum(f, S \ {x})

\* ------------------------------------------------------------ environment
\* Size of the object behind item i: what a successful PerformCopy returns.
ItemBytes(i) == i

\* What PerformCopy can do: return, raise ItemExistsError, raise an exception
\* that IsNoClobberServerException accepts (both only under -n), or raise
\* any other exception.
BackendResults ==
  {"ok", "Error"} \cup (IF opts.no_clobber THEN {"ItemExistsError", "NoClobberServer"} ELSE {})

\* Mutant: only a source recorded as copied counts.
WasSuccessful_OnlyOK(i) == manifest[i] = "OK"

\* Manifest.WasSuccessful: the file records the source as copied or skipped.
WasSuccessful(i) == manifest[i] \in {"OK", "skip"}

\* What the checks of CopyFunc find about an item, at most one of: a
\* provider-only source URL (line 532), a wildcard source token that names a
\* container (lines 545 and 556), a directory/file conflict of the resolved
\* destination (line 570), a resolved destination equal to the expanded
\* source (line 571), a resolved destination with a generation (line 577).
ItemShapes == {"plain", "provider_only", "wild_container", "conflict", "same", "dst_generation"}

\* Outside mv, CopyFunc does not look at the wildcard or at NamesContainer().
ShapesFor(o) == IF o.perform_mv THEN ItemShapes ELSE ItemShapes \ {"wild_container"}

\* The items the name expansion iterator yields: a request that is not
\* multi-source has one item.
RunItems == IF have_multiple_srcs THEN Items ELSE {1}

\* ------------------------------------------------------------------ Init
OptsTuples == [perform_mv : BOOLEAN, use_manifest : BOOLEAN, print_ver : BOOLEAN,
               canned_acl : BOOLEAN, no_clobber : BOOLEAN]

\* Mutant: elapsed_time and bytes_transferred do not start at zero.
NoLocals_Stale == [elapsed_time |-> 1, bytes_transferred |-> 1, result_url |-> FALSE,
                   t0 |-> 0, ld_count |-> 0, ld_elapsed |-> 0, ld_bytes |-> 0]

\* The locals of CopyFunc: elapsed_time and bytes_transferred (line 582),
\* whether result_url is bound (line 587), the clock at the call of
\* PerformCopy, copy_failure_count as loaded by line 608, and the sums
\* evaluated by lines 648-649.
NoLocals == [elapsed_time |-> 0, bytes_transferred |-> 0, result_url |-> FALSE,
             t0 |-> 0, ld_count |-> 0, ld_elapsed |-> 0, ld_bytes |-> 0]

\* Lines 662-717: the state RunCommand sets up before it calls Apply.
RunStart ==
  /\ phase = "apply"
  /\ status = "running"
  /\ reported_count = 0
  /\ next_item = 1
  /\ aborted = FALSE
  /\ pc = [i \in Items |-> "new"]
  /\ loc = [i \in Items |-> NoLocals]
  /\ manifest = [i \in Items |-> "none"]
  /\ rows = [i \in Items |-> 0]
  /\ recorded_done = [i \in Items |-> FALSE]
  /\ copy_failure_count = 0
  /\ total_bytes_transferred = 0
  /\ total_elapsed_time = 0
  /\ stats_lock = FALSE
  /\ now = 0
  /\ outcome = [i \in Items |-> "none"]
  /\ fin = [i \in Items |-> "no"]
  /\ transfers = [i \in Items |-> 0]
  /\ xfer_elapsed = [i \in Items |-> 0]
  /\ added = [i \in Items |-> FALSE]
  /\ deletes = [i \in Items |-> 0]
  /\ resolved = [i \in Items |-> FALSE]

\* Lines 675-707 have run: the destination is an existing bucket whose
\* versioning is disabled.
SetupDone ==
  /\ setup = "iterate"
  /\ exp_dst_url = <<"X">>
  /\ dst_cloud = TRUE
  /\ dst_exists = TRUE
  /\ dst_versioning = FALSE
  /\ have_existing_dst_container = TRUE
  /\ probe = "disabled"
  /\ all_versions = FALSE
  /\ src_url = <<"dir1">>
  /\ names_container = FALSE
  /\ exp_src_url = <<>>
  /\ dst_url = <<>>

\* The state of RunCommand when Apply is called, for a request whose sources
\* pass the checks CopyFunc makes on each of them.
Init ==
  /\ opts \in OptsTuples
  /\ continue_on_error \in BOOLEAN
  /\ have_multiple_srcs \in BOOLEAN
  /\ dst_names_container \in BOOLEAN
  /\ shape = [i \in Items |-> "plain"]
  /\ SetupDone
  /\ RunStart

\* ------------------------------------------------------- Apply (the pool)
\* The calls of CopyFunc in progress.
InProgress == {i \in Items : pc[i] \notin {"new", "done"}}

\* Apply hands the next item of the iterator to an idle worker, unless an
\* exception has left CopyFunc (fail_on_error=True).
Dispatch(i) ==
  /\ phase = "apply"
  /\ ~aborted
  /\ i = next_item
  /\ i \in RunItems
  /\ Cardinality(InProgress) < NumWorkers
  /\ next_item' = next_item + 1

\* An exception leaves CopyFunc: the worker is done with the item, and Apply
\* schedules no further item; the items already dispatched finish.
Raise(i, how) ==
  /\ pc' = [pc EXCEPT ![i] = "done"]
  /\ loc' = [loc EXCEPT ![i] = NoLocals]
  /\ fin' = [fin EXCEPT ![i] = how]
  /\ aborted' = TRUE

\* Mutant: a check of CopyFunc gives up the item and returns.
Throw_AsReturn(i, how) ==
  /\ pc' = [pc EXCEPT ![i] = "done"]
  /\ fin' = [fin EXCEPT ![i] = how]
  /\ UNCHANGED <<loc, aborted>>

\* An exception is raised in CopyFunc and has not reached Apply yet.
Throw(i, how) ==
  /\ pc' = [pc EXCEPT ![i] = "raising"]
  /\ fin' = [fin EXCEPT ![i] = how]
  /\ UNCHANGED <<loc, aborted>>

\* CopyFunc returns normally.
Return(i) ==
  /\ pc' = [pc EXCEPT ![i] = "done"]
  /\ loc' = [loc EXCEPT ![i] = NoLocals]
  /\ fin' = [fin EXCEPT ![i] = "returned"]
  /\ UNCHANGED aborted

\* CopyFunc goes on to the statement at label, with locals l.
Goto(i, label, l) ==
  /\ pc' = [pc EXCEPT ![i] = label]
  /\ loc' = [loc EXCEPT ![i] = l]
  /\ UNCHANGED <<fin, aborted>>

\* ------------------------------------------------------------- CopyFunc
\* Mutant: the move step is never taken.
PerformsMove_Never == FALSE

\* Line 637: the source is removed when the command runs as mv.
PerformsMove == opts.perform_mv

\* Mutant: after the try statement the copy is made again.
AfterTry_Again == "copying"

\* Lines 619-647: the first statement after the try statement that does
\* something under the options given.
AfterTry ==
  IF opts.print_ver \/ opts.canned_acl THEN "post"
  ELSE IF PerformsMove THEN "move" ELSE "stats"

\* Mutant: the manifest is not consulted.
ManifestShortCircuit_Never(i) == FALSE

\* Lines 540-542: a source the manifest records as done is not copied again.
ManifestShortCircuit(i) == opts.use_manifest /\ WasSuccessful(i)

\* Mutant: the entry is not initialized before the copy.
ManifestSet_NoInit(i, tag) ==
  IF opts.use_manifest /\ tag # "init" THEN [manifest EXCEPT ![i] = tag] ELSE manifest

\* Manifest.Initialize and Manifest.SetResult, when -L is given.
ManifestSet(i, tag) == IF opts.use_manifest THEN [manifest EXCEPT ![i] = tag] ELSE manifest

\* Mutant: Initialize writes a row as well.
AppendRow_OnInit(i, tag) ==
  IF opts.use_manifest THEN [rows EXCEPT ![i] = @ + 1] ELSE rows

\* The manifest file is appended to: every SetResult adds a row for the
\* source (help text, lines 342-347); Initialize writes no row.
AppendRow(i, tag) ==
  IF opts.use_manifest /\ tag # "init" THEN [rows EXCEPT ![i] = @ + 1] ELSE rows

\* Mutant: a multi-source request accepts any destination.
InsistDstUrlNamesContainer_Never == FALSE

\* Lines 536-538: InsistDstUrlNamesContainer raises for a multi-source
\* request whose destination is not a container.
InsistDstUrlNamesContainer == have_multiple_srcs /\ ~dst_names_container

\* Mutant: the wildcard is not looked at.
WildcardContainerMove_Never(s) == FALSE

\* Lines 544-558: mv of a container named with a wildcard.
WildcardContainerMove(s) == opts.perform_mv /\ s = "wild_container"

\* Mutant: a copy onto itself is not detected.
SrcDstSame_Never(s) == FALSE

\* Line 571: SrcDstSame(exp_src_url, dst_url).
SrcDstSame(s) == s = "same"

\* Mutant: a directory/file conflict is not detected.
CheckForDirFileConflict_Never(s) == FALSE

\* Line 570: CheckForDirFileConflict(exp_src_url, dst_url) raises.
CheckForDirFileConflict(s) == s = "conflict"

\* Mutant: a generation in the destination is not detected.
HasGeneration_Never(s) == FALSE

\* Line 577: dst_url.HasGeneration().
HasGeneration(s) == s = "dst_generation"

\* Lines 560-562: the destination is a local path that does not exist and
\* the request is multi-source.
DstDirMissing == ~dst_cloud /\ ~dst_exists /\ have_multiple_srcs

\* Lines 532-580: the checks of CopyFunc on item i of shape s, in the order
\* of the code: the exception one of them raises, "return" for the return of
\* line 542, or "copy" when the try statement is reached.
PreCheck(i, s) ==
  IF s = "provider_only" THEN "raised_provider"
  ELSE IF InsistDstUrlNamesContainer THEN "raised_dst"
  ELSE IF ManifestShortCircuit(i) THEN "return"
  ELSE IF WildcardContainerMove(s) THEN "raised_wildcard"
  ELSE IF CheckForDirFileConflict(s) THEN "raised_conflict"
  ELSE IF SrcDstSame(s) THEN "raised_same"
  ELSE IF HasGeneration(s) THEN "raised_generation"
  ELSE "copy"

\* The exceptions raised after lines 560-568 resolved the destination.
RaisedAfterResolve == {"raised_conflict", "raised_same", "raised_generation"}

\* Lines 565-588: the destination of item i is resolved and checked (e is
\* what the checks find), then Manifest.Initialize and the call of
\* PerformCopy.
CopyFuncResolve(i, e) ==
  IF e = "copy"
  THEN /\ Goto(i, "copying", [NoLocals EXCEPT !.t0 = now])
       /\ resolved' = [resolved EXCEPT ![i] = TRUE]
       /\ manifest' = ManifestSet(i, "init")
       /\ rows' = AppendRow(i, "init")
       /\ transfers' = [transfers EXCEPT ![i] = @ + 1]
       /\ UNCHANGED outcome
  ELSE /\ Throw(i, e)
       /\ resolved' = [resolved EXCEPT ![i] = (e \in RaisedAfterResolve)]
       /\ UNCHANGED <<manifest, rows, transfers, outcome>>

\* Lines 510-588: CopyFunc is called for item i of shape s: the checks before
\* the copy, the test of line 560 (the call stops before os.makedirs when the
\* directory is missing), the resolution of the destination,
\* Manifest.Initialize and the call of PerformCopy.
CopyFuncBegin(i, s) ==
  LET e == PreCheck(i, s) IN
    IF e = "return"
    THEN /\ Return(i)
         /\ outcome' = [outcome EXCEPT ![i] = "Skipped"]
         /\ UNCHANGED <<manifest, rows, transfers, resolved>>
    ELSE IF (e = "copy" \/ e \in RaisedAfterResolve) /\ DstDirMissing
    THEN /\ Goto(i, "makedirs", NoLocals)
         /\ UNCHANGED <<manifest, rows, transfers, resolved, outcome>>
    ELSE CopyFuncResolve(i, e)

\* Apply calls CopyFunc (through _CopyFuncWrapper) on the next item.
Start(i) ==
  /\ Dispatch(i)
  /\ CopyFuncBegin(i, shape[i])
  /\ UNCHANGED <<cfgVars, runVars, recorded_done, statVars, now,
                 xfer_elapsed, added, deletes>>

\* Line 563: os.makedirs, called by a worker that found the directory
\* missing at line 561. It raises OSError when the directory exists by now;
\* otherwise the directory is created and CopyFunc goes on.
MakeDirs(i) ==
  /\ pc[i] = "makedirs"
  /\ IF dst_exists
     THEN /\ Throw(i, "raised_makedirs")
          /\ UNCHANGED <<dst_exists, manifest, rows, transfers, resolved, outcome>>
     ELSE /\ dst_exists' = TRUE
          /\ CopyFuncResolve(i, PreCheck(i, shape[i]))
  /\ UNCHANGED <<opts, continue_on_error, have_multiple_srcs, dst_names_container,
                 shape, setup, exp_dst_url, dst_cloud, dst_versioning,
                 have_existing_dst_container,
                 probe, all_versions, src_url, names_container, exp_src_url, dst_url,
                 runVars, next_item, recorded_done, statVars, now,
                 xfer_elapsed, added, deletes>>

\* The exception raised by a check of CopyFunc reaches Apply.
Propagate(i) ==
  /\ pc[i] = "raising"
  /\ Raise(i, fin[i])
  /\ UNCHANGED <<cfgVars, runVars, next_item, manifest, rows, recorded_done, statVars,
                 now, outcome, transfers, xfer_elapsed, added, deletes, resolved>>

\* Mutant: the last handler logs the error and does not raise it again.
Classify_Swallow(r) ==
  CASE r = "ok" -> "success"
    [] r = "ItemExistsError" -> "skip"
    [] r = "NoClobberServer" -> "skip"
    [] OTHER -> "tolerated"

\* Lines 594-617: which handler the result of PerformCopy reaches.
Classify(r) ==
  CASE r = "ok" -> "success"
    [] r = "ItemExistsError" -> "skip"
    [] r = "NoClobberServer" -> "skip"
    [] r = "Error" /\ continue_on_error -> "tolerated"
    [] OTHER -> "fatal"

\* Lines 587-617: PerformCopy returns or raises, and the try statement ends,
\* up to the load of copy_failure_count in line 608.
PerformCopyReturn(i) ==
  /\ pc[i] = "copying"
  /\ \E r \in BackendResults :
       LET c == Classify(r) IN
         CASE c = "success" ->
                /\ Goto(i, AfterTry, [NoLocals EXCEPT !.elapsed_time = now - loc[i].t0,
                                                      !.bytes_transferred = ItemBytes(i),
                                                      !.result_url = TRUE])
                /\ xfer_elapsed' = [xfer_elapsed EXCEPT ![i] = now - loc[i].t0]
                /\ manifest' = ManifestSet(i, "OK")
                /\ rows' = AppendRow(i, "OK")
                /\ outcome' = [outcome EXCEPT ![i] = "Succeeded"]
           [] c = "skip" ->
                /\ Goto(i, AfterTry, NoLocals)
                /\ manifest' = ManifestSet(i, "skip")
                /\ rows' = AppendRow(i, "skip")
                /\ outcome' = [outcome EXCEPT ![i] = "Skipped"]
                /\ UNCHANGED xfer_elapsed
           [] c = "tolerated" ->
                /\ Goto(i, "count", [NoLocals EXCEPT !.ld_count = copy_failure_count])
                /\ outcome' = [outcome EXCEPT ![i] = "Failed"]
                /\ UNCHANGED <<xfer_elapsed, manifest, rows>>
           [] OTHER ->
                /\ Raise(i, "raised_copy")
                /\ manifest' = ManifestSet(i, "error")
                /\ rows' = AppendRow(i, "error")
                /\ outcome' = [outcome EXCEPT ![i] = "Failed"]
                /\ UNCHANGED xfer_elapsed
  /\ UNCHANGED <<cfgVars, runVars, next_item, recorded_done, statVars, now,
                 transfers, added, deletes, resolved>>

\* Lines 608-612: the store of copy_failure_count += 1 (no lock is held), and
\* the error recorded in the manifest.
StoreFailureCount(i) ==
  /\ pc[i] = "count"
  /\ copy_failure_count' = loc[i].ld_count + 1
  /\ manifest' = ManifestSet(i, "error")
  /\ rows' = AppendRow(i, "error")
  /\ Goto(i, AfterTry, NoLocals)
  /\ UNCHANGED <<cfgVars, runVars, next_item, recorded_done,
                 total_bytes_transferred, total_elapsed_time, stats_lock, now,
                 outcome, transfers, xfer_elapsed, added, deletes, resolved>>

\* Lines 619-631: the statements after the try statement. Line 622 reads
\* result_url, which only a returned PerformCopy has bound; SetAclFunc may
\* raise.
PostCopy(i) ==
  /\ pc[i] = "post"
  /\ IF opts.print_ver /\ ~loc[i].result_url
     THEN Raise(i, "raised_print")
     ELSE \E acl_ok \in (IF opts.canned_acl THEN BOOLEAN ELSE {TRUE}) :
            IF acl_ok
            THEN Goto(i, IF PerformsMove THEN "move" ELSE "stats", loc[i])
            ELSE Raise(i, "raised_acl")
  /\ UNCHANGED <<cfgVars, runVars, next_item, manifest, rows, recorded_done,
                 statVars, now, outcome, transfers, xfer_elapsed, added, deletes, resolved>>

\* Lines 637-645: DeleteObject or os.unlink of the source; either may raise.
MoveDelete(i) ==
  /\ pc[i] = "move"
  /\ deletes' = [deletes EXCEPT ![i] = @ + 1]
  /\ \E del_ok \in BOOLEAN :
       IF del_ok
       THEN Goto(i, "stats", loc[i])
       ELSE Raise(i, "raised_delete")
  /\ UNCHANGED <<cfgVars, runVars, next_item, manifest, rows, recorded_done,
                 statVars, now, outcome, transfers, xfer_elapsed, added, resolved>>

\* Mutant: the lock is never granted.
LockFree_Never == FALSE

\* Mutant: the statistics are updated without the lock.
LockFree_Always == TRUE

\* Line 647: the lock can be taken.
LockFree == ~stats_lock

\* Lines 647-649: stats_lock is acquired and the two sums are evaluated.
StatsEnter(i) ==
  /\ pc[i] = "stats"
  /\ LockFree
  /\ stats_lock' = TRUE
  /\ Goto(i, "store",
          [loc[i] EXCEPT !.ld_elapsed = total_elapsed_time + loc[i].elapsed_time,
                         !.ld_bytes = total_bytes_transferred + loc[i].bytes_transferred])
  /\ UNCHANGED <<cfgVars, runVars, next_item, manifest, rows, recorded_done,
                 copy_failure_count, total_bytes_transferred, total_elapsed_time,
                 now, outcome, transfers, xfer_elapsed, added, deletes, resolved>>

\* Lines 648-649: the sums are stored, the lock is released, CopyFunc returns.
StatsExit(i) ==
  /\ pc[i] = "store"
  /\ total_elapsed_time' = loc[i].ld_elapsed
  /\ total_bytes_transferred' = loc[i].ld_bytes
  /\ stats_lock' = FALSE
  /\ added' = [added EXCEPT ![i] = TRUE]
  /\ Return(i)
  /\ UNCHANGED <<cfgVars, runVars, next_item, manifest, rows, recorded_done,
                 copy_failure_count, now, outcome, transfers, xfer_elapsed, deletes,
                 resolved>>

\* ------------------------------------------------------------ RunCommand
\* time.time() advances; only a transfer takes a measurable time.
Tick ==
  /\ phase = "apply"
  /\ \E i \in Items : pc[i] = "copying"
  /\ now < MaxClock
  /\ now' = now + 1
  /\ UNCHANGED <<cfgVars, runVars, applyVars, pc, loc, manifest, rows,
                 recorded_done, statVars, histVars>>

\* Mutant: the floor is added to the measured time.
ResultElapsed_FloorAdded(wall) == wall + ElapsedFloor

\* Mutant: a zero elapsed time is kept.
ResultElapsed_NoFloor(wall) == wall

\* Lines 731-740: end_time - start_time replaces the sum of the workers; a
\* zero is replaced by the floor.
ResultElapsed(wall) == IF wall = 0 THEN ElapsedFloor ELSE wall

\* Lines 742-743: total_bytes_per_second; -1 stands for the ZeroDivisionError
\* of a zero divisor.
TotalBytesPerSecond(bytes, elapsed) ==
  IF elapsed = 0 THEN -1 ELSE bytes \div elapsed

\* Mutant: the test of the plural (line 756) decides the status.
ExitStatus_Plural(count) == IF count > 1 THEN "CommandException" ELSE "ok"

\* Lines 754-761: the exit policy.
ExitStatus(count) == IF count # 0 THEN "CommandException" ELSE "ok"

\* Lines 726-761: Apply returns or raises; the statistics and the status.
Finish ==
  /\ phase = "apply"
  /\ InProgress = {}
  /\ aborted \/ next_item \notin RunItems
  /\ phase' = "done"
  /\ IF aborted
     THEN /\ status' = "exception"
          /\ UNCHANGED <<reported_count, total_elapsed_time>>
     ELSE /\ total_elapsed_time' = ResultElapsed(now)
          /\ status' = ExitStatus(copy_failure_count)
          /\ reported_count' = copy_failure_count
  /\ UNCHANGED <<cfgVars, applyVars, pc, loc, manifest, rows, recorded_done,
                 copy_failure_count, total_bytes_transferred, stats_lock, now,
                 histVars>>

\* Lines 653-717, and the loop of lines 350-355: after a run that ended with
\* a non-zero status the command is run again with the same options, the
\* same sources and the manifest file that run left (-L).
NewRun ==
  /\ phase = "done"
  /\ opts.use_manifest
  /\ status # "ok"
  /\ \A i \in Items : rows[i] < MaxRows
  /\ phase' = "apply"
  /\ status' = "running"
  /\ reported_count' = 0
  /\ next_item' = 1
  /\ aborted' = FALSE
  /\ pc' = [i \in Items |-> "new"]
  /\ recorded_done' = [i \in Items |-> manifest[i] \in {"OK", "skip"}]
  /\ copy_failure_count' = 0
  /\ total_bytes_transferred' = 0
  /\ total_elapsed_time' = 0
  /\ now' = 0
  /\ outcome' = [i \in Items |-> "none"]
  /\ fin' = [i \in Items |-> "no"]
  /\ transfers' = [i \in Items |-> 0]
  /\ xfer_elapsed' = [i \in Items |-> 0]
  /\ added' = [i \in Items |-> FALSE]
  /\ deletes' = [i \in Items |-> 0]
  /\ resolved' = [i \in Items |-> FALSE]
  /\ UNCHANGED <<cfgVars, loc, manifest, rows, stats_lock>>

\* The steps of RunCommand other than the passing of time.
Steps ==
  \/ \E i \in Items : Start(i)
  \/ \E i \in Items : Propagate(i)
  \/ \E i \in Items : PerformCopyReturn(i)
  \/ \E i \in Items : StoreFailureCount(i)
  \/ \E i \in Items : PostCopy(i)
  \/ \E i \in Items : MoveDelete(i)
  \/ \E i \in Items : StatsEnter(i)
  \/ \E i \in Items : StatsExit(i)
  \/ Finish

Next ==
  \/ Steps
  \/ Tick

Spec == Init /\ [][Next]_vars

\* One run under fair scheduling: the threads of Apply and the main thread
\* are scheduled, and a call of PerformCopy returns or raises, so a step of
\* the program that can be taken is taken in the end. Whether the run ends
\* does not depend on the clock, which is left out.
SpecLive == Init /\ [][Steps]_vars /\ WF_vars(Steps)

\* Any request: each source has one of the shapes the checks of CopyFunc
\* distinguish.
InitChecks ==
  /\ opts \in OptsTuples
  /\ continue_on_error \in BOOLEAN
  /\ have_multiple_srcs \in BOOLEAN
  /\ dst_names_container \in BOOLEAN
  /\ shape \in [Items -> ShapesFor(opts)]
  /\ \A i \in Items \ RunItems : shape[i] = "plain"
  /\ SetupDone
  /\ RunStart

\* The checks of CopyFunc on the sources of any request. The checks do not
\* read the clock, so no time passes.
SpecChecks == InitChecks /\ [][Steps]_vars

\* A request with a manifest (-L), one run and the runs that follow it over
\* the same sources and the same manifest file (the loop of lines 350-354).
InitManifest ==
  /\ opts \in {o \in OptsTuples : o.use_manifest}
  /\ continue_on_error \in BOOLEAN
  /\ have_multiple_srcs \in BOOLEAN
  /\ dst_names_container \in BOOLEAN
  /\ shape = [i \in Items |-> "plain"]
  /\ SetupDone
  /\ RunStart

NextManifest ==
  \/ Steps
  \/ NewRun

SpecManifest == InitManifest /\ [][NextManifest]_vars

\* A multi-source request whose destination is a local directory, which may
\* not exist yet (lines 560-563).
InitMkdir ==
  /\ opts = [perform_mv |-> FALSE, use_manifest |-> FALSE, print_ver |-> FALSE,
             canned_acl |-> FALSE, no_clobber |-> FALSE]
  /\ continue_on_error \in BOOLEAN
  /\ have_multiple_srcs = TRUE
  /\ dst_names_container = TRUE
  /\ shape = [i \in Items |-> "plain"]
  /\ setup = "iterate"
  /\ exp_dst_url = <<"X">>
  /\ dst_cloud = FALSE
  /\ dst_exists \in BOOLEAN
  /\ dst_versioning = FALSE
  /\ have_existing_dst_container = dst_exists
  /\ probe = "not_bucket"
  /\ all_versions = FALSE
  /\ src_url = <<"dir1">>
  /\ names_container = FALSE
  /\ exp_src_url = <<>>
  /\ dst_url = <<>>
  /\ RunStart

NextMkdir ==
  \/ \E i \in Items : Start(i)
  \/ \E i \in Items : MakeDirs(i)
  \/ \E i \in Items : Propagate(i)
  \/ \E i \in Items : PerformCopyReturn(i)
  \/ \E i \in Items : StoreFailureCount(i)
  \/ \E i \in Items : StatsEnter(i)
  \/ \E i \in Items : StatsExit(i)
  \/ Finish

SpecMkdir == InitMkdir /\ [][NextMkdir]_vars

\* ------------------------------------- RunCommand before Apply, and naming
\* Paths are sequences of segments: dir1/dir2/a/b/c is <<"dir1", "dir2", "a",
\* "b", "c">>.
Segs == {"a", "b", "c"}
RelPaths == UNION {[1..n -> Segs] : n \in 1..MaxDepth}
SrcTokens == {<<"dir2">>, <<"dir1", "dir2">>}
DstUrls == {<<"X">>, <<"X", "subdir">>}

\* What the name expansion iterator yields for a source token: the items
\* below a container, or the token itself and the matches of a wildcard.
Expansions(src, container) ==
  {src \o r : r \in RelPaths} \cup (IF container THEN {} ELSE {src})

NoOpts == [perform_mv |-> FALSE, use_manifest |-> FALSE, print_ver |-> FALSE,
           canned_acl |-> FALSE, no_clobber |-> FALSE]

\* RunCommand is entered with a destination and one source token.
InitSetup ==
  /\ opts = NoOpts
  /\ continue_on_error = FALSE
  /\ have_multiple_srcs = TRUE
  /\ dst_names_container = TRUE
  /\ shape = [i \in Items |-> "plain"]
  /\ RunStart
  /\ setup = "expand"
  /\ exp_dst_url \in DstUrls
  /\ dst_cloud \in BOOLEAN
  /\ dst_exists \in BOOLEAN
  /\ dst_versioning \in BOOLEAN
  /\ have_existing_dst_container = FALSE
  /\ probe = "none"
  /\ all_versions = FALSE
  /\ src_url \in SrcTokens
  /\ names_container \in BOOLEAN
  /\ exp_src_url = <<>>
  /\ dst_url = <<>>

mainVars == <<opts, continue_on_error, have_multiple_srcs, dst_names_container, shape,
              runVars, applyVars, pc, loc, manifest, rows, recorded_done, statVars, now,
              histVars>>

\* Lines 675-676: ExpandDstUrl is called once and returns the flag.
ExpandDstUrl ==
  /\ setup = "expand"
  /\ have_existing_dst_container' = dst_exists
  /\ setup' = "probe"
  /\ UNCHANGED <<mainVars, exp_dst_url, dst_cloud, dst_versioning, dst_exists, probe, all_versions,
                 src_url, names_container, exp_src_url, dst_url>>

\* Line 847: only a cloud bucket is asked for its versioning.
IsBucket == dst_cloud /\ Len(exp_dst_url) = 1

\* Lines 849-851: what GetBucket can do.
GetBucketResults ==
  IF dst_exists
  THEN {IF dst_versioning THEN "enabled" ELSE "disabled", "AccessDenied", "Error"}
  ELSE {"NotFound", "AccessDenied", "Error"}

\* Mutant: only a bucket that reports versioning enabled counts.
AllVersions_EnabledOnly(r) == r = "enabled"

\* Lines 683-698: all_versions after the probe.
AllVersions(r) == r \in {"enabled", "AccessDenied"}

\* Lines 854-859: the errors of GetBucket raised again as CommandException.
ProbeFails(r) == r \in {"NotFound", "Error"}

\* Lines 683-698 and 846-860: the probe of the versioning of the destination.
GetBucketWithVersioningConfig ==
  /\ setup = "probe"
  /\ \E r \in (IF IsBucket THEN GetBucketResults ELSE {"not_bucket"}) :
       /\ probe' = r
       /\ all_versions' = AllVersions(r)
       /\ setup' = IF ProbeFails(r) THEN "failed" ELSE "iterate"
  /\ UNCHANGED <<mainVars, exp_dst_url, dst_cloud, dst_versioning, dst_exists,
                 have_existing_dst_container, src_url, names_container,
                 exp_src_url, dst_url>>

\* Mutant: the existence of the destination is looked up for each item.
HaveExistingDstContainer_Now == dst_exists

\* Lines 529-530 and 704: each name expansion result carries the flag that
\* RunCommand passed to the iterator.
HaveExistingDstContainer == have_existing_dst_container

\* Mutant: the path of the source is kept.
FinalComponent_Whole(exp) == exp

\* Lines 106-111: an individually named source is named by its final path
\* component.
FinalComponent(exp) == <<exp[Len(exp)]>>

\* Mutant: a recursive copy names the items flatly.
MirroredPath_Flat(src, exp, existing) == <<exp[Len(exp)]>>

\* Lines 97-104 and 121-129: a recursive copy mirrors the source structure
\* from the last segment of the source token on; that segment is left out
\* when the destination subdirectory does not exist.
MirroredPath(src, exp, existing) ==
  LET rel == SubSeq(exp, Len(src), Len(exp)) IN
    IF existing THEN rel ELSE Tail(rel)

\* Lines 565-567: ConstructDstUrl.
ConstructDstUrl(src, exp, container, dst, existing) ==
  dst \o (IF container THEN MirroredPath(src, exp, existing)
          ELSE FinalComponent(exp))

\* Lines 522-568: CopyFunc resolves the destination of the next item. An
\* individually named source is resolved against an existing container.
ResolveItem ==
  /\ setup = "iterate"
  /\ exp_src_url = <<>>
  /\ names_container \/ HaveExistingDstContainer
  /\ \E exp \in Expansions(src_url, names_container) :
       /\ exp_src_url' = exp
       /\ dst_url' = ConstructDstUrl(src_url, exp, names_container, exp_dst_url,
                                     HaveExistingDstContainer)
  /\ UNCHANGED <<mainVars, setup, exp_dst_url, dst_cloud, dst_versioning, dst_exists,
                 have_existing_dst_container, probe, all_versions, src_url,
                 names_container>>

\* Lines 587-588: the copy of the item writes below the destination, which
\* exists as a container from then on.
CopyWritesDst ==
  /\ setup = "iterate"
  /\ exp_src_url # <<>>
  /\ dst_exists' = TRUE
  /\ exp_src_url' = <<>>
  /\ dst_url' = <<>>
  /\ UNCHANGED <<mainVars, setup, exp_dst_url, dst_cloud, dst_versioning,
                 have_existing_dst_container, probe, all_versions, src_url,
                 names_container>>

NextSetup ==
  \/ ExpandDstUrl
  \/ GetBucketWithVersioningConfig
  \/ ResolveItem
  \/ CopyWritesDst

SpecSetup == InitSetup /\ [][NextSetup]_vars

TypeOK ==
  /\ opts \in OptsTuples
  /\ phase \in {"apply", "done"}
  /\ copy_failure_count \in 0..NumItems
  /\ stats_lock \in BOOLEAN
  /\ now \in 0..MaxClock
  /\ next_item \in 1..(NumItems + 1)
  /\ Cardinality(InProgress) <= NumWorkers
  /\ rows \in [Items -> 0..MaxRows]

\* ------------------------------------------------------------ properties
Rejected(i) == fin[i] \in {"raised_provider", "raised_dst", "raised_wildcard",
                            "raised_conflict", "raised_same", "raised_generation"}
Raised(i) == fin[i] \in {"raised_copy", "raised_print", "raised_acl", "raised_delete"}
SucceededItems == {i \in Items : outcome[i] = "Succeeded"}
FailedItems == {i \in Items : outcome[i] = "Failed"}
AddedItems == {i \in Items : added[i]}
BytesOf == [i \in Items |-> ItemBytes(i)]

\* C1 (as claimed): in move mode no delete of the source is issued for an
\* item whose outcome is Skipped (no-clobber, item already exists, or
\* recorded as done in the manifest).
C1_SkippedNeverDeleted ==
  opts.perform_mv => \A i \in Items : outcome[i] = "Skipped" => deletes[i] = 0

\* C2 (as claimed): in move mode no delete of the source is issued for an
\* item whose transfer failed and was tolerated by continue-on-error.
C2_FailedNeverDeleted ==
  (opts.perform_mv /\ continue_on_error) =>
    \A i \in Items : outcome[i] = "Failed" => deletes[i] = 0

\* C3 (as claimed): in move mode a delete is issued only once the transfer
\* of the item has returned, and every item whose transfer succeeded has
\* exactly one delete when its CopyFunc call has ended.
C3_Original ==
  opts.perform_mv =>
    \A i \in Items :
      /\ deletes[i] > 0 => outcome[i] # "none"
      /\ (outcome[i] = "Succeeded" /\ pc[i] = "done") => deletes[i] = 1

\* C3 (amended): in move mode a delete of an item's source is issued at most
\* once and only once its transfer has returned; an item whose transfer
\* succeeded has exactly one delete when its CopyFunc call has ended, unless
\* ACL propagation raised, and then it has none.
C3_DeleteAfterSuccess ==
  opts.perform_mv =>
    \A i \in Items :
      /\ deletes[i] <= 1
      /\ deletes[i] > 0 => (outcome[i] # "none" /\ transfers[i] = 1)
      /\ (outcome[i] = "Succeeded" /\ pc[i] = "done") =>
           deletes[i] = (IF fin[i] = "raised_acl" THEN 0 ELSE 1)

C3_Witness ==
  /\ opts.perform_mv
  /\ opts.canned_acl
  /\ \E i, j \in Items :
       /\ outcome[i] = "Succeeded" /\ pc[i] = "done" /\ deletes[i] = 1
       /\ outcome[j] = "Succeeded" /\ fin[j] = "raised_acl" /\ deletes[j] = 0

C5_CountEqualsFailures ==
  (continue_on_error /\ phase = "done" /\ ~aborted) =>
    copy_failure_count = Cardinality(FailedItems)

\* C6 (as claimed): with continue-on-error no item whose transfer failed
\* makes CopyFunc raise, and a run that no other exception stopped has
\* processed every item and ends with a non-zero status when an item failed.
C6_ToleratedFailureNeverAborts ==
  continue_on_error =>
    /\ \A i \in Items : outcome[i] = "Failed" => ~Raised(i)
    /\ (phase = "done" /\ ~aborted) =>
         /\ \A i \in RunItems : pc[i] = "done"
         /\ FailedItems # {} => status = "CommandException"

C8_Original ==
  phase = "done" => total_bytes_transferred = Sum(BytesOf, SucceededItems)

\* C8 (amended): when the run has ended, total_bytes_transferred is the sum
\* of the bytes of every item whose transfer succeeded and whose CopyFunc
\* call returned; an item whose ACL propagation or delete raised adds nothing.
C8_BytesOfReturnedCalls ==
  phase = "done" =>
    total_bytes_transferred =
      Sum(BytesOf, {i \in SucceededItems : fin[i] = "returned"})

C8_Witness ==
  /\ phase = "done"
  /\ \E i, j \in Items :
       /\ outcome[i] = "Succeeded" /\ fin[i] = "returned"
       /\ outcome[j] = "Succeeded" /\ fin[j] \in {"raised_acl", "raised_delete"}
       /\ total_bytes_transferred = ItemBytes(i)

\* C9 (as claimed): when the run has ended, total_elapsed_time is the sum of
\* the elapsed times the workers added.
C9_Original ==
  phase = "done" => total_elapsed_time = Sum(xfer_elapsed, AddedItems)

\* C9 (amended): while the pool runs, and in a run an exception stopped,
\* total_elapsed_time is the sum of the elapsed times the workers added; in
\* the result of a run that reached the end of the pool it is the wall-clock
\* time of the run, or the floor when that is zero.
C9_ElapsedIsWallClock ==
  /\ (phase = "apply" \/ aborted) =>
       total_elapsed_time = Sum(xfer_elapsed, AddedItems)
  /\ (phase = "done" /\ ~aborted) =>
       total_elapsed_time = (IF now = 0 THEN ElapsedFloor ELSE now)

C9_Witness ==
  /\ phase = "done"
  /\ ~aborted
  /\ Cardinality(AddedItems) >= 2
  /\ Sum(xfer_elapsed, AddedItems) > now
  /\ total_elapsed_time = now

\* C10: a run that reached the end of the pool returns 0 iff
\* copy_failure_count is zero; otherwise it raises one CommandException that
\* carries the count, and it does so whenever the transfer of an item failed.
C10_ExitPolicy ==
  (phase = "done" /\ ~aborted) =>
    /\ status = "ok" <=> copy_failure_count = 0
    /\ status # "ok" => (status = "CommandException" /\ reported_count = copy_failure_count)
    /\ FailedItems # {} => status = "CommandException"

C10_Witness ==
  /\ phase = "done"
  /\ ~aborted
  /\ FailedItems # {}
  /\ status = "CommandException"
  /\ reported_count >= 1

\* C11 (as claimed): an item whose transfer raised ItemExistsError or a
\* no-clobber rejection of the server has the outcome Skipped, with
\* continue-on-error on or off; it does not count as a failure, its CopyFunc
\* call raises no exception (the run is not aborted), and with a manifest
\* its entry is 'skip'.
C11_SkipClassification ==
  /\ copy_failure_count <= Cardinality(FailedItems)
  /\ \A i \in Items :
       (outcome[i] = "Skipped" /\ transfers[i] = 1) =>
         /\ ~Raised(i)
         /\ opts.use_manifest => manifest[i] = "skip"

\* C12: an item whose resolved destination is its expanded source is rejected
\* by CopyFunc: it is never handed to PerformCopy, no entry of the manifest is
\* initialized for it, no delete of its source is issued, and its call ends
\* with the exception of line 572 (or of line 537, which comes first).
C12_IdentityRejected ==
  \A i \in Items :
    shape[i] = "same" =>
      /\ transfers[i] = 0
      /\ manifest[i] = "none"
      /\ deletes[i] = 0
      /\ outcome[i] = "none"
      /\ pc[i] \in {"new", "raising", "done"}
      /\ pc[i] = "done" => fin[i] \in {"raised_same", "raised_dst"}

C12_Witness ==
  /\ opts.perform_mv
  /\ opts.use_manifest
  /\ \E i, j \in Items :
       /\ shape[i] = "same" /\ pc[i] = "done" /\ fin[i] = "raised_same"
       /\ resolved[i] /\ transfers[i] = 0 /\ deletes[i] = 0 /\ manifest[i] = "none"
       /\ transfers[j] = 1 /\ deletes[j] = 1

\* C13: when the request is multi-source and the destination is not a
\* container, no item of the run is ever handed to PerformCopy (nor deleted,
\* nor entered in the manifest), every call of CopyFunc ends with an
\* exception of the checks, and the run ends with that exception; this holds
\* with one worker and with several calls in progress.
C13_MultiSourceNeedsContainer ==
  (have_multiple_srcs /\ ~dst_names_container) =>
    /\ \A i \in Items :
         /\ transfers[i] = 0
         /\ deletes[i] = 0
         /\ manifest[i] = "none"
         /\ pc[i] = "done" => fin[i] \in {"raised_dst", "raised_provider"}
    /\ phase = "done" => status = "exception"

C13_Witness ==
  /\ have_multiple_srcs
  /\ ~dst_names_container
  /\ phase = "done"
  /\ status = "exception"
  /\ \E i, j \in Items : i # j /\ fin[i] = "raised_dst" /\ fin[j] = "raised_dst"

\* C14 (as claimed): in move mode, a run whose request holds a wildcard
\* source token that names a container transfers and deletes no item of any
\* token.
C14_Original ==
  (opts.perform_mv /\ \E i \in RunItems : shape[i] = "wild_container") =>
    \A j \in Items : transfers[j] = 0 /\ deletes[j] = 0

\* C14 (amended): in move mode, an item of a wildcard source token that
\* names a container is rejected by CopyFunc: it is never handed to
\* PerformCopy, never deleted and never entered in the manifest, and a run
\* in which the rejection happened ends with the exception. Other items of
\* the request may have been transferred and deleted.
C14_WildcardMoveRejected ==
  opts.perform_mv =>
    /\ \A i \in Items :
         shape[i] = "wild_container" =>
           /\ transfers[i] = 0
           /\ deletes[i] = 0
           /\ manifest[i] = "none"
           /\ pc[i] = "done" => fin[i] \in {"raised_wildcard", "raised_dst"}
    /\ (phase = "done" /\ \E i \in Items : fin[i] = "raised_wildcard") =>
         status = "exception"

C14_Witness ==
  /\ opts.perform_mv
  /\ phase = "done"
  /\ status = "exception"
  /\ \E i, j \in Items :
       /\ shape[i] = "plain" /\ transfers[i] = 1 /\ deletes[i] = 1
       /\ shape[j] = "wild_container" /\ fin[j] = "raised_wildcard"
       /\ transfers[j] = 0 /\ deletes[j] = 0

\* C15: when the probe of the destination's versioning fails with
\* AccessDenied, RunCommand does not fail: it goes on to the enumeration of
\* the sources with all_versions set.
C15_AccessDeniedIncludesAllVersions ==
  probe = "AccessDenied" => (setup = "iterate" /\ all_versions = TRUE)

C15_Witness ==
  /\ probe = "AccessDenied"
  /\ all_versions = TRUE
  /\ exp_src_url # <<>>
  /\ dst_url # <<>>

\* C16: for an individually named source (NamesContainer() false, wildcard
\* matches included) and an existing container X, the resolved destination
\* is X joined with the final path component of the source only; it depends
\* on nothing but the source and the destination.
C16_FinalComponentOnly ==
  (exp_src_url # <<>> /\ ~names_container) =>
    /\ have_existing_dst_container
    /\ dst_url = exp_dst_url \o <<exp_src_url[Len(exp_src_url)]>>

C16_Witness ==
  /\ ~names_container
  /\ exp_src_url = <<"dir1", "dir2", "a", "b", "c">>
  /\ exp_dst_url = <<"X">>
  /\ dst_url = <<"X", "c">>

\* C17: for a recursive copy of the container dir1/dir2 into an existing
\* container X, the item dir1/dir2/<rel> resolves to X/dir2/<rel>.
C17_RecursiveMirrorsFromRoot ==
  (exp_src_url # <<>> /\ names_container /\ have_existing_dst_container) =>
    dst_url = exp_dst_url \o <<src_url[Len(src_url)]>>
                \o SubSeq(exp_src_url, Len(src_url) + 1, Len(exp_src_url))

C17_Witness ==
  /\ names_container
  /\ have_existing_dst_container
  /\ src_url = <<"dir1", "dir2">>
  /\ exp_src_url = <<"dir1", "dir2", "a", "b", "c">>
  /\ exp_dst_url = <<"X">>
  /\ dst_url = <<"X", "dir2", "a", "b", "c">>

\* C18: for a recursive copy of dir1/dir2 into X/subdir, the item
\* dir1/dir2/<rel> resolves to X/subdir/dir2/<rel> when subdir existed when
\* RunCommand expanded the destination, and to X/subdir/<rel> when it did
\* not; every item of the run is resolved with that one value of the flag,
\* also once the copies of the run have created subdir.
C18_SubdirFlagFixedPerRun ==
  (exp_src_url # <<>> /\ names_container /\ Len(exp_dst_url) = 2) =>
    dst_url = exp_dst_url
                \o (IF have_existing_dst_container THEN <<src_url[Len(src_url)]>> ELSE <<>>)
                \o SubSeq(exp_src_url, Len(src_url) + 1, Len(exp_src_url))

C18_Witness ==
  /\ names_container
  /\ ~have_existing_dst_container
  /\ dst_exists
  /\ src_url = <<"dir1", "dir2">>
  /\ exp_src_url = <<"dir1", "dir2", "a", "b", "c">>
  /\ exp_dst_url = <<"X", "subdir">>
  /\ dst_url = <<"X", "subdir", "a", "b", "c">>

\* C19 (as claimed): the statements after the try statement (the report of
\* the version-specific URL, the propagation of the ACL) are executed for an
\* item only if its transfer succeeded, and the report never reads a
\* result_url that no transfer has bound.
C19_PostStepsOnlyAfterSuccess ==
  \A i \in Items :
    /\ (pc[i] = "post" \/ fin[i] \in {"raised_print", "raised_acl"}) =>
         outcome[i] = "Succeeded"
    /\ fin[i] # "raised_print"

\* C20: a call of CopyFunc on an item that the manifest records as copied or
\* skipped returns at once: the step hands nothing to PerformCopy, resolves
\* no destination, writes nothing to the manifest, issues no delete, leaves
\* the bytes, the elapsed time and the failure count as they are, and raises
\* nothing.
C20_ShortCircuitFrame ==
  [][\A i \in Items :
       (pc[i] = "new" /\ pc'[i] # "new" /\ opts.use_manifest
          /\ manifest[i] \in {"OK", "skip"}) =>
         /\ pc'[i] = "done" /\ fin'[i] = "returned" /\ outcome'[i] = "Skipped"
         /\ transfers' = transfers
         /\ resolved' = resolved
         /\ manifest' = manifest
         /\ deletes' = deletes
         /\ total_bytes_transferred' = total_bytes_transferred
         /\ total_elapsed_time' = total_elapsed_time
         /\ copy_failure_count' = copy_failure_count
         /\ aborted' = aborted]_vars

C20_Witness ==
  /\ opts.use_manifest
  /\ opts.perform_mv
  /\ \E i, j \in Items :
       /\ recorded_done[i] /\ manifest[i] = "skip"
       /\ pc[i] = "done" /\ fin[i] = "returned" /\ outcome[i] = "Skipped"
       /\ transfers[i] = 0 /\ ~resolved[i] /\ deletes[i] = 0
       /\ added[j] /\ total_bytes_transferred = ItemBytes(j)

C22_Original == \A i \in Items : rows[i] <= 1

\* C22 (amended): a row is appended to the manifest file only when the
\* result of a transfer of the source is recorded, one row for each
\* transfer, and never for a source the run found recorded as OK or skip; a
\* source that failed and is retried by a later run gets a further row.
C22_OneRowPerTransfer ==
  [][\A i \in Items :
       rows'[i] # rows[i] =>
         /\ rows'[i] = rows[i] + 1
         /\ manifest[i] = "init" /\ manifest'[i] \in {"OK", "skip", "error"}
         /\ pc[i] \in {"copying", "count"} /\ transfers[i] = 1
         /\ ~recorded_done[i]]_vars

C22_Witness ==
  \E i \in Items : rows[i] = 2 /\ manifest[i] = "OK" /\ pc[i] = "done"

\* C23: an item whose resolved destination fails a conflict check (a
\* directory/file conflict, or a destination that carries a generation) is
\* rejected before the try statement: PerformCopy is never called for it and
\* no entry of the manifest is initialized for it; its call ends with the
\* exception of line 570 or 578 (or of line 537, which comes first).
C23_ConflictRejectedBeforeTransfer ==
  \A i \in Items :
    shape[i] \in {"conflict", "dst_generation"} =>
      /\ transfers[i] = 0
      /\ manifest[i] = "none"
      /\ rows[i] = 0
      /\ outcome[i] = "none"
      /\ pc[i] \in {"new", "raising", "done"}
      /\ pc[i] = "done" =>
           fin[i] \in {IF shape[i] = "conflict" THEN "raised_conflict"
                       ELSE "raised_generation", "raised_dst"}

C23_Witness ==
  /\ opts.use_manifest
  /\ \E i, j \in Items :
       /\ shape[i] = "conflict" /\ pc[i] = "done" /\ fin[i] = "raised_conflict"
       /\ shape[j] = "dst_generation" /\ pc[j] = "done" /\ fin[j] = "raised_generation"
       /\ resolved[i] /\ resolved[j]
       /\ transfers[i] = 0 /\ transfers[j] = 0
       /\ manifest[i] = "none" /\ manifest[j] = "none"

\* The exceptions CopyFunc raises for one item: a provider-only source (line
\* 533) and the checks on its resolved destination (lines 570-580).
ItemRejected(i) ==
  fin[i] \in {"raised_provider", "raised_conflict", "raised_same", "raised_generation"}

C25_VersionedDstIncludesAllVersions ==
  setup = "iterate" =>
    /\ (dst_cloud /\ dst_versioning) => all_versions
    /\ (~dst_cloud \/ probe = "disabled") => ~all_versions

\* C26: in one run an item gets one terminal outcome and keeps it: the
\* outcome is set once (by the return of line 542 or by the end of the
\* PerformCopy call), PerformCopy is called at most once and only when the
\* item is started, one result row at most is written to the manifest and
\* only for an initialized entry, and a call that has ended after a
\* PerformCopy call has an outcome.
C26_OneTerminalOutcome ==
  [][\A i \in Items :
       /\ outcome'[i] # outcome[i] =>
            \/ /\ outcome[i] = "none"
               /\ outcome'[i] \in {"Succeeded", "Skipped", "Failed"}
               /\ pc[i] \in {"new", "copying"}
            \/ /\ phase = "done" /\ phase' = "apply"
               /\ outcome'[i] = "none"
       /\ transfers'[i] <= 1
       /\ transfers'[i] > transfers[i] => pc[i] \in {"new", "makedirs"}
       /\ rows'[i] # rows[i] =>
            (rows'[i] = rows[i] + 1 /\ manifest[i] = "init" /\ manifest'[i] # "init")
       /\ (manifest'[i] = "init" /\ manifest[i] # "init") => pc[i] = "new"
       /\ (pc'[i] = "done" /\ transfers'[i] = 1) =>
            outcome'[i] \in {"Succeeded", "Skipped", "Failed"}]_vars

C26_Witness ==
  /\ phase = "done"
  /\ \E i, j \in Items :
       /\ rows[i] = 2 /\ transfers[i] = 1 /\ outcome[i] = "Succeeded" /\ fin[i] = "returned"
       /\ transfers[j] = 1 /\ outcome[j] = "Failed" /\ manifest[j] = "error"

\* C27: under fair scheduling a run finishes: RunCommand reaches its exit
\* decision with the statistics lock free and every item of the request
\* either ended or never started because the run was aborted; and whenever
\* the statistics lock is held it is released later.
C27_RunFinishes ==
  /\ <>(/\ phase = "done"
        /\ status # "running"
        /\ ~stats_lock
        /\ \A i \in RunItems : pc[i] = "done" \/ (pc[i] = "new" /\ aborted))
  /\ [](stats_lock => <>(~stats_lock))

C27_Witness ==
  /\ phase = "done"
  /\ status = "exception"
  /\ ~stats_lock
  /\ \E j, k \in RunItems :
       /\ pc[j] = "done" /\ Raised(j)
       /\ pc[k] = "new"

\* C28: in the result of a run that reached the end of the pool the elapsed
\* time the throughput is computed from is positive: the floor when the
\* measured time is zero, the measured time itself otherwise; the division
\* of lines 742-743 has a non-zero divisor.
C28_ElapsedPositive ==
  (phase = "done" /\ ~aborted) =>
    /\ total_elapsed_time > 0
    /\ now = 0 => total_elapsed_time = ElapsedFloor
    /\ now # 0 => total_elapsed_time = now
    /\ TotalBytesPerSecond(total_bytes_transferred, total_elapsed_time) >= 0

C28_Witness ==
  /\ phase = "done"
  /\ ~aborted
  /\ now = 0
  /\ total_elapsed_time = ElapsedFloor
  /\ total_bytes_transferred > 0
  /\ TotalBytesPerSecond(total_bytes_transferred, total_elapsed_time) > 0

\* C29: with a local destination that does not exist and several workers,
\* no worker calls os.makedirs when the directory exists already (the call
\* raises OSError then): the directory is created once, whatever the
\* interleaving of the tests of line 561 and the calls of line 563.
C29_DirCreatedOnce ==
  \A i \in Items : fin[i] # "raised_makedirs"

\* C30: the statistics step of an item adds its bytes and its elapsed time
\* to the aggregate when its transfer returned, and adds nothing when the
\* item was skipped or its failure was tolerated; total_bytes_transferred
\* changes in no other step.
C30_OnlySuccessesContribute ==
  [][/\ \A i \in Items :
          (pc[i] = "store" /\ pc'[i] = "done") =>
            /\ total_bytes_transferred' = total_bytes_transferred +
                 (IF outcome[i] = "Succeeded" THEN ItemBytes(i) ELSE 0)
            /\ total_elapsed_time' = total_elapsed_time +
                 (IF outcome[i] = "Succeeded" THEN xfer_elapsed[i] ELSE 0)
     /\ total_bytes_transferred' # total_bytes_transferred =>
          \E i \in Items :
            pc[i] = "store" /\ pc'[i] = "done" /\ outcome[i] = "Succeeded"]_vars

C30_Witness ==
  /\ continue_on_error
  /\ opts.no_clobber
  /\ \E i, j \in Items :
       /\ outcome[i] = "Failed" /\ added[i]
       /\ outcome[j] = "Skipped" /\ added[j]
       /\ total_bytes_transferred = 0
       /\ total_elapsed_time = 0
       /\ now > 0

====
